---- MODULE Spec2Model ----
(***************************************************************************)
(* Word counts over the standard works: the batch aggregation of           *)
(* data_processor.py (process_scriptures) and the query function of        *)
(* app.py (get_search_results).                                            *)
(*                                                                         *)
(* Python str values that the code inspects character by character (verse  *)
(* text, tokens, search terms, formatted numbers) are sequences of         *)
(* one-character strings.  Titles, which the code only compares and uses   *)
(* as keys, are TLA+ strings.  A Python dict whose iteration order the     *)
(* code relies on is a sequence of [k, v] entries in insertion order; a    *)
(* Counter is a function from tokens to counts.                            *)
(***************************************************************************)
EXTENDS Integers, Sequences, FiniteSets, TLC

VARIABLES
    infile,               \* content of JSON_FILE_PATH
    outfile,              \* content of OUTPUT_FILE_PATH / DATA_FILE
    NLTK_AVAILABLE,       \* data_processor.py module flag
    pc,                   \* position of process_scriptures
    scripture_verses,     \* the loaded verse list
    idx,                  \* next verse of the for loop (1-based)
    processed_data,       \* the nested defaultdict/Counter structure
    final_data_for_json,  \* the plain-dict copy that is dumped
    app_pc,               \* position of app.py's module body
    scripture_data,       \* what load_data returned
    results               \* the last get_search_results call and its rows

vars == <<infile, outfile, NLTK_AVAILABLE, pc, scripture_verses, idx,
          processed_data, final_data_for_json, app_pc, scripture_data, results>>

aggVars == <<infile, NLTK_AVAILABLE, pc, scripture_verses, idx,
             processed_data, final_data_for_json>>

appVars == <<app_pc, scripture_data, results>>

\* Longest input verse list explored.
MaxVerses == 2

-----------------------------------------------------------------------------
(* Characters and str methods *)

UpperLetters ==
    <<"A","B","C","D","E","F","G","H","I","J","K","L","M",
      "N","O","P","Q","R","S","T","U","V","W","X","Y","Z">>

LowerLetters ==
    <<"a","b","c","d","e","f","g","h","i","j","k","l","m",
      "n","o","p","q","r","s","t","u","v","w","x","y","z">>

Whitespace == {" ", "\t", "\n"}

Range(s) == {s[i] : i \in DOMAIN s}

LowerChar(c) ==
    IF \E i \in DOMAIN UpperLetters : UpperLetters[i] = c
    THEN LowerLetters[CHOOSE i \in DOMAIN UpperLetters : UpperLetters[i] = c]
    ELSE c

\* str.lower()
lower(s) == [i \in DOMAIN s |-> LowerChar(s[i])]

\* str.strip()
strip(s) ==
    LET keep == {i \in DOMAIN s : s[i] \notin Whitespace}
    IN  IF keep = {} THEN <<>>
        ELSE SubSeq(s, CHOOSE i \in keep : \A j \in keep : i <= j,
                       CHOOSE i \in keep : \A j \in keep : i >= j)

\* re.sub(r"[^a-z\s']", '', text): the characters that stay
KeptChar(c) == c \in Range(LowerLetters) \cup Whitespace \cup {"'"}

RECURSIVE SplitFrom(_, _, _, _)
SplitFrom(s, i, word, acc) ==
    IF i > Len(s)
    THEN IF word = <<>> THEN acc ELSE Append(acc, word)
    ELSE IF s[i] \in Whitespace
         THEN SplitFrom(s, i + 1, <<>>,
                        IF word = <<>> THEN acc ELSE Append(acc, word))
         ELSE SplitFrom(s, i + 1, Append(word, s[i]), acc)

\* str.split() with no argument: the maximal runs of non-whitespace
split(s) == SplitFrom(s, 1, <<>>, <<>>)

clean_and_tokenize_text(text) == split(SelectSeq(lower(text), KeptChar))

-----------------------------------------------------------------------------
(* The lemmatizer *)

\* WordNetLemmatizer.lemmatize(token) with the default (noun) part of
\* speech, on the vocabulary of the verses below: a plural noun goes to
\* its singular, every other token stays.
WordNetLemmatize(token) ==
    IF token = <<"w","o","r","k","s">> THEN <<"w","o","r","k">> ELSE token

\* As lemmatize_tokens, but a failing batch yields no tokens at all.
lemmatize_tokens_EmptyOnError(tokens, available, raises) ==
    IF ~available THEN tokens
    ELSE IF raises THEN <<>>
    ELSE [i \in DOMAIN tokens |-> WordNetLemmatize(tokens[i])]

\* raises: whether lemmatizer.lemmatize throws on this batch.
lemmatize_tokens(tokens, available, raises) ==
    IF ~available THEN tokens
    ELSE IF raises THEN tokens
    ELSE [i \in DOMAIN tokens |-> WordNetLemmatize(tokens[i])]

-----------------------------------------------------------------------------
(* dict, defaultdict and Counter *)

DictHas(d, key) == \E i \in DOMAIN d : d[i].k = key

DictIdx(d, key) == CHOOSE i \in DOMAIN d : d[i].k = key

DictGet(d, key) == d[DictIdx(d, key)].v

\* defaultdict.__getitem__: a missing key is inserted, last, with the default
Vivify(d, key, default) ==
    IF DictHas(d, key) THEN d ELSE Append(d, [k |-> key, v |-> default])

DictSet(d, key, val) ==
    IF DictHas(d, key) THEN [d EXCEPT ![DictIdx(d, key)].v = val]
    ELSE Append(d, [k |-> key, v |-> val])

EmptyCounter == <<>>

\* Counter.get(word, 0)
CounterGet(c, word) == IF word \in DOMAIN c THEN c[word] ELSE 0

CounterIncr(c, word) ==
    IF word \in DOMAIN c THEN [c EXCEPT ![word] = @ + 1]
    ELSE c @@ (word :> 1)

RECURSIVE CounterUpdateFrom(_, _, _)
CounterUpdateFrom(c, words, i) ==
    IF i > Len(words) THEN c
    ELSE CounterUpdateFrom(CounterIncr(c, words[i]), words, i + 1)

\* Counter.update(iterable): one increment per element
CounterUpdate(c, words) == CounterUpdateFrom(c, words, 1)

-----------------------------------------------------------------------------
(* process_scriptures *)

RECOGNIZED_STANDARD_WORKS ==
    <<"Old Testament", "New Testament", "Book of Mormon",
      "Doctrine and Covenants", "Pearl of Great Price">>

NewBook ==
    [word_counts |-> EmptyCounter,
     lemmatized_word_counts |-> EmptyCounter,
     total_words |-> 0]

NewStandardWork == [books |-> <<>>, total_words_in_standard_work |-> 0]

NewProcessedData == [standard_works |-> <<>>, total_words_overall |-> 0]

\* verse_data.get(key) is falsy: the key is absent (None) or its value empty
Falsy(verse_data, key) ==
    IF key \notin DOMAIN verse_data THEN TRUE
    ELSE verse_data[key] = (IF key = "scripture_text" THEN <<>> ELSE "")

\* As Skipped, without the test against RECOGNIZED_STANDARD_WORKS.
Skipped_NoAllowList(verse_data) ==
    \/ Falsy(verse_data, "volume_title")
    \/ Falsy(verse_data, "book_title")
    \/ Falsy(verse_data, "scripture_text")

\* the two continue statements of the loop
Skipped(verse_data) ==
    IF \/ Falsy(verse_data, "volume_title")
       \/ Falsy(verse_data, "book_title")
       \/ Falsy(verse_data, "scripture_text")
    THEN TRUE
    ELSE ~ \E i \in DOMAIN RECOGNIZED_STANDARD_WORKS :
              RECOGNIZED_STANDARD_WORKS[i] = verse_data.volume_title

\* the five updates of one accepted verse
UpdateBook(book_data, raw_words, lemmatized_words) ==
    [word_counts |-> CounterUpdate(book_data.word_counts, raw_words),
     lemmatized_word_counts |->
         CounterUpdate(book_data.lemmatized_word_counts, lemmatized_words),
     total_words |-> book_data.total_words + Len(raw_words)]

\* As UpdateStandardWork, with the standard work's total assigned (=)
\* where the code adds (+=).
UpdateStandardWork_Assign(sw_data, book_title, raw_words, lemmatized_words) ==
    LET books == Vivify(sw_data.books, book_title, NewBook)
    IN  [books |-> DictSet(books, book_title,
                      UpdateBook(DictGet(books, book_title),
                                 raw_words, lemmatized_words)),
         total_words_in_standard_work |-> Len(raw_words)]

UpdateStandardWork(sw_data, book_title, raw_words, lemmatized_words) ==
    LET books == Vivify(sw_data.books, book_title, NewBook)
    IN  [books |-> DictSet(books, book_title,
                      UpdateBook(DictGet(books, book_title),
                                 raw_words, lemmatized_words)),
         total_words_in_standard_work |->
             sw_data.total_words_in_standard_work + Len(raw_words)]

\* As CountWords, with the overall total counting verses, not words.
CountWords_CountsVerses(data, verse_data, available, raises) ==
    LET raw_words == clean_and_tokenize_text(verse_data.scripture_text)
        lemmatized_words == lemmatize_tokens(raw_words, available, raises)
        sws == Vivify(data.standard_works, verse_data.volume_title,
                      NewStandardWork)
    IN  [standard_works |->
             DictSet(sws, verse_data.volume_title,
                 UpdateStandardWork(DictGet(sws, verse_data.volume_title),
                                    verse_data.book_title,
                                    raw_words, lemmatized_words)),
         total_words_overall |-> data.total_words_overall + 1]

\* the loop body for an accepted verse
CountWords(data, verse_data, available, raises) ==
    LET raw_words == clean_and_tokenize_text(verse_data.scripture_text)
        lemmatized_words == lemmatize_tokens(raw_words, available, raises)
        sws == Vivify(data.standard_works, verse_data.volume_title,
                      NewStandardWork)
    IN  [standard_works |->
             DictSet(sws, verse_data.volume_title,
                 UpdateStandardWork(DictGet(sws, verse_data.volume_title),
                                    verse_data.book_title,
                                    raw_words, lemmatized_words)),
         total_words_overall |-> data.total_words_overall + Len(raw_words)]

\* one iteration of the loop
ProcessVerse(data, verse_data, available, raises) ==
    IF Skipped(verse_data) THEN data
    ELSE CountWords(data, verse_data, available, raises)

RECURSIVE ProcessFrom(_, _, _, _)
ProcessFrom(data, verses, i, available) ==
    IF i > Len(verses) THEN data
    ELSE ProcessFrom(ProcessVerse(data, verses[i], available, FALSE),
                     verses, i + 1, available)

\* the whole loop over a verse list, the lemmatizer not raising
ProcessAll(verses, available) ==
    ProcessFrom(NewProcessedData, verses, 1, available)

FinalBook(book_data) ==
    [word_counts |-> book_data.word_counts,
     lemmatized_word_counts |-> book_data.lemmatized_word_counts,
     total_words |-> book_data.total_words]

FinalStandardWork(sw_data) ==
    [books |-> [j \in DOMAIN sw_data.books |->
                   [k |-> sw_data.books[j].k,
                    v |-> FinalBook(sw_data.books[j].v)]],
     total_words_in_standard_work |-> sw_data.total_words_in_standard_work]

\* As FinalData, with the standard works listed in the order of
\* RECOGNIZED_STANDARD_WORKS instead of the order of insertion.
FinalData_DeclarationOrder(data) ==
    LET present == SelectSeq(RECOGNIZED_STANDARD_WORKS,
                             LAMBDA name : DictHas(data.standard_works, name))
    IN  [standard_works |->
            [i \in DOMAIN present |->
                [k |-> present[i],
                 v |-> FinalStandardWork(
                           DictGet(data.standard_works, present[i]))]],
         total_words_overall |-> data.total_words_overall]

\* the copy into plain dicts, in the iteration order of .items()
FinalData(data) ==
    [standard_works |->
        [i \in DOMAIN data.standard_works |->
            [k |-> data.standard_works[i].k,
             v |-> FinalStandardWork(data.standard_works[i].v)]],
     total_words_overall |-> data.total_words_overall]

-----------------------------------------------------------------------------
(* Files and inputs *)

MissingFile == [kind |-> "missing"]

\* a file whose content json.load rejects
MalformedFile == [kind |-> "malformed"]

JsonFile(doc) == [kind |-> "json", doc |-> doc]

\* Verse objects of the input array.  An absent key is an absent field.
VerseSamples ==
    { [volume_title |-> "Book of Mormon", book_title |-> "Alma",
       scripture_text |-> <<"G","o","d","'","s"," ","F","a","i","t","h",","," ","f","a","i","t","h">>],
      [volume_title |-> "Book of Mormon", book_title |-> "Ether",
       scripture_text |-> <<"w","o","r","k"," ","W","o","r","k","s">>],
      [volume_title |-> "New Testament", book_title |-> "John",
       scripture_text |-> <<"f","a","i","t","h"," ","w","o","r","k","s">>],
      [volume_title |-> "Old Testament", book_title |-> "Genesis",
       scripture_text |-> <<"1","2">>],
      [volume_title |-> "Apocrypha", book_title |-> "Tobit",
       scripture_text |-> <<"f","a","i","t","h">>],
      [volume_title |-> "New Testament", book_title |-> "John"],
      [volume_title |-> "New Testament", book_title |-> "",
       scripture_text |-> <<"h","o","p","e">>],
      [book_title |-> "Alma", scripture_text |-> <<"f","a","i","t","h">>],
      [volume_title |-> "", book_title |-> "Alma",
       scripture_text |-> <<"f","a","i","t","h">>],
      [volume_title |-> "Old Testament", book_title |-> "Genesis",
       scripture_text |-> <<>>] }

VerseLists == UNION {[1..n -> VerseSamples] : n \in 0..MaxVerses}

\* A snapshot left by an earlier run over another corpus.
ExampleSnapshot ==
    [standard_works |->
        << [k |-> "Book of Mormon",
            v |-> [books |->
                      << [k |-> "Alma",
                          v |-> [word_counts |->
                                     (<<"f","a","i","t","h">> :> 50) @@ (<<"a","n","d">> :> 4950),
                                 lemmatized_word_counts |->
                                     (<<"f","a","i","t","h">> :> 50) @@ (<<"a","n","d">> :> 4950),
                                 total_words |-> 5000]],
                         [k |-> "Ether",
                          v |-> [word_counts |-> (<<"a","n","d">> :> 12),
                                 lemmatized_word_counts |-> (<<"a","n","d">> :> 12),
                                 total_words |-> 12]] >>,
                   total_words_in_standard_work |-> 5012]] >>,
     total_words_overall |-> 5012]

PriorOutputs == {MissingFile, JsonFile(ExampleSnapshot)}

NoResults == [called |-> FALSE, search_term |-> <<>>, granularity |-> "",
              rows |-> <<>>]

None == [kind |-> "none"]

-----------------------------------------------------------------------------
(* process_scriptures, step by step *)

Init ==
    /\ infile \in {MissingFile, MalformedFile}
                     \cup {JsonFile(vs) : vs \in VerseLists}
    /\ outfile \in PriorOutputs
    /\ NLTK_AVAILABLE \in BOOLEAN
    /\ pc = "start"
    /\ scripture_verses = <<>>
    /\ idx = 1
    /\ processed_data = NewProcessedData
    /\ final_data_for_json = NewProcessedData
    /\ app_pc = "start"
    /\ scripture_data = None
    /\ results = NoResults

\* open + json.load succeed
LoadInput ==
    /\ pc = "start"
    /\ infile.kind = "json"
    /\ scripture_verses' = infile.doc
    /\ pc' = "loop"
    /\ UNCHANGED <<infile, outfile, NLTK_AVAILABLE, idx, processed_data,
                   final_data_for_json>>
    /\ UNCHANGED appVars

\* As LoadInputFails, going on with an empty verse list instead of returning.
LoadInputFails_GoesOn ==
    /\ pc = "start"
    /\ infile.kind \in {"missing", "malformed"}
    /\ scripture_verses' = <<>>
    /\ pc' = "loop"
    /\ UNCHANGED <<infile, outfile, NLTK_AVAILABLE, idx, processed_data,
                   final_data_for_json>>
    /\ UNCHANGED appVars

\* FileNotFoundError or json.JSONDecodeError: print and return
LoadInputFails ==
    /\ pc = "start"
    /\ infile.kind \in {"missing", "malformed"}
    /\ pc' = "aborted"
    /\ UNCHANGED <<infile, outfile, NLTK_AVAILABLE, scripture_verses, idx,
                   processed_data, final_data_for_json>>
    /\ UNCHANGED appVars

\* a loop iteration that ends in one of the two continue statements
SkipVerse ==
    /\ pc = "loop"
    /\ idx <= Len(scripture_verses)
    /\ Skipped(scripture_verses[idx])
    /\ processed_data' =
           ProcessVerse(processed_data, scripture_verses[idx],
                        NLTK_AVAILABLE, FALSE)
    /\ idx' = idx + 1
    /\ UNCHANGED <<infile, outfile, NLTK_AVAILABLE, pc, scripture_verses,
                   final_data_for_json>>
    /\ UNCHANGED appVars

\* a loop iteration that counts the verse's words
CountVerse ==
    /\ pc = "loop"
    /\ idx <= Len(scripture_verses)
    /\ ~Skipped(scripture_verses[idx])
    /\ \E raises \in BOOLEAN :
           processed_data' =
               ProcessVerse(processed_data, scripture_verses[idx],
                            NLTK_AVAILABLE, raises)
    /\ idx' = idx + 1
    /\ UNCHANGED <<infile, outfile, NLTK_AVAILABLE, pc, scripture_verses,
                   final_data_for_json>>
    /\ UNCHANGED appVars

\* the loop is exhausted: build final_data_for_json
BuildFinal ==
    /\ pc = "loop"
    /\ idx > Len(scripture_verses)
    /\ final_data_for_json' = FinalData(processed_data)
    /\ pc' = "write"
    /\ UNCHANGED <<infile, outfile, NLTK_AVAILABLE, scripture_verses, idx,
                   processed_data>>
    /\ UNCHANGED appVars

\* open(OUTPUT_FILE_PATH, 'w') + json.dump succeed
WriteOutput ==
    /\ pc = "write"
    /\ outfile' = JsonFile(final_data_for_json)
    /\ pc' = "done"
    /\ UNCHANGED <<infile, NLTK_AVAILABLE, scripture_verses, idx,
                   processed_data, final_data_for_json>>
    /\ UNCHANGED appVars

\* IOError: open fails (the file stays) or the dump breaks off after the
\* file was truncated (what is left is no JSON document)
WriteOutputFails ==
    /\ pc = "write"
    /\ outfile' \in {outfile, MalformedFile}
    /\ pc' = "write_failed"
    /\ UNCHANGED <<infile, NLTK_AVAILABLE, scripture_verses, idx,
                   processed_data, final_data_for_json>>
    /\ UNCHANGED appVars

Next ==
    \/ LoadInput
    \/ LoadInputFails
    \/ SkipVerse
    \/ CountVerse
    \/ BuildFinal
    \/ WriteOutput
    \/ WriteOutputFails

Spec == Init /\ [][Next]_vars

-----------------------------------------------------------------------------
(* Number formatting *)

Digits == <<"0","1","2","3","4","5","6","7","8","9">>

RECURSIVE IntStr(_)
\* str(n), n >= 0
IntStr(n) ==
    IF n < 10 THEN <<Digits[n + 1]>>
    ELSE Append(IntStr(n \div 10), Digits[(n % 10) + 1])

RECURSIVE GroupThousands(_)
\* f"{n:,}", n >= 0
GroupThousands(n) ==
    IF n < 1000 THEN IntStr(n)
    ELSE GroupThousands(n \div 1000)
           \o <<",", Digits[((n \div 100) % 10) + 1],
                     Digits[((n \div 10) % 10) + 1], Digits[(n % 10) + 1]>>

\* n / d to the nearest integer, a tie going to the even one
RoundHalfEven(n, d) ==
    LET q == n \div d
        r == n % d
    IN  IF 2 * r > d \/ (2 * r = d /\ q % 2 = 1) THEN q + 1 ELSE q

\* As normalized_count, cutting the digits after the second decimal.
normalized_count_Truncated(raw_count, total_words) ==
    IF total_words > 0 THEN (raw_count * 1000000) \div total_words
    ELSE 0

\* (raw_count / total_words) * 10000 if total_words > 0 else 0, in
\* hundredths as "{:.2f}" rounds it.  The float product is within 1e-11 of
\* the exact quotient, which decides the rounding unless the exact value is
\* a tie; exact ties need total_words to be a multiple of 128.
normalized_count(raw_count, total_words) ==
    IF total_words > 0 THEN RoundHalfEven(raw_count * 1000000, total_words)
    ELSE 0

\* f"{x:.2f}" of a value given in hundredths
Fixed2(hundredths) ==
    IntStr(hundredths \div 100)
      \o <<".", Digits[((hundredths \div 10) % 10) + 1],
                Digits[(hundredths % 10) + 1]>>

-----------------------------------------------------------------------------
(* app.py *)

RECURSIVE SumSeq(_)
SumSeq(s) == IF s = <<>> THEN 0 ELSE Head(s) + SumSeq(Tail(s))

RECURSIVE Concat(_)
Concat(ss) == IF ss = <<>> THEN <<>> ELSE Head(ss) \o Concat(Tail(ss))

\* the inner loop: the term's count summed over the books of a standard work
sw_raw_count(sw_data, term) ==
    SumSeq([j \in DOMAIN sw_data.books |->
               CounterGet(sw_data.books[j].v.word_counts, term)])

\* As CombinedRows, leaving the loop after the first standard work.
CombinedRows_FirstWorkOnly(term, data) ==
    LET overall_raw_count ==
            IF data.standard_works = <<>> THEN 0
            ELSE sw_raw_count(data.standard_works[1].v, term)
        overall_total_words == data.total_words_overall
    IN  << ("Scope" :> "All Standard Works")
           @@ ("Search Term" :> term)
           @@ ("Raw Count" :> overall_raw_count)
           @@ ("Per 10,000 Words" :>
                  Fixed2(normalized_count(overall_raw_count,
                                          overall_total_words)))
           @@ ("Total Words in Scope" :>
                  GroupThousands(overall_total_words)) >>

CombinedRows(term, data) ==
    LET overall_raw_count ==
            SumSeq([i \in DOMAIN data.standard_works |->
                       sw_raw_count(data.standard_works[i].v, term)])
        overall_total_words == data.total_words_overall
    IN  << ("Scope" :> "All Standard Works")
           @@ ("Search Term" :> term)
           @@ ("Raw Count" :> overall_raw_count)
           @@ ("Per 10,000 Words" :>
                  Fixed2(normalized_count(overall_raw_count,
                                          overall_total_words)))
           @@ ("Total Words in Scope" :>
                  GroupThousands(overall_total_words)) >>

StandardWorkRow(term, sw_name, sw_data) ==
    LET raw == sw_raw_count(sw_data, term)
        sw_total_words == sw_data.total_words_in_standard_work
    IN  ("Standard Work" :> sw_name)
        @@ ("Search Term" :> term)
        @@ ("Raw Count" :> raw)
        @@ ("Per 10,000 Words" :> Fixed2(normalized_count(raw, sw_total_words)))
        @@ ("Total Words in Standard Work" :> GroupThousands(sw_total_words))

StandardWorkRows(term, data) ==
    [i \in DOMAIN data.standard_works |->
        StandardWorkRow(term, data.standard_works[i].k,
                        data.standard_works[i].v)]

BookRow(term, sw_name, book_name, book_data) ==
    LET book_raw_count == CounterGet(book_data.word_counts, term)
        book_total_words == book_data.total_words
    IN  ("Standard Work" :> sw_name)
        @@ ("Book" :> book_name)
        @@ ("Search Term" :> term)
        @@ ("Raw Count" :> book_raw_count)
        @@ ("Per 10,000 Words" :>
               Fixed2(normalized_count(book_raw_count, book_total_words)))
        @@ ("Total Words in Book" :> GroupThousands(book_total_words))

BookRows(term, data) ==
    Concat([i \in DOMAIN data.standard_works |->
               LET sw == data.standard_works[i]
               IN  [j \in DOMAIN sw.v.books |->
                       BookRow(term, sw.k, sw.v.books[j].k, sw.v.books[j].v)]])

Granularities ==
    {"All Standard Works Combined", "By Standard Work",
     "By Book (within each Standard Work)"}

\* As search_term_cleaned, without strip().
search_term_cleaned_NoStrip(search_term) == lower(search_term)

\* As search_term_cleaned, without lower().
search_term_cleaned_NoLower(search_term) == strip(search_term)

\* search_term.lower().strip()
search_term_cleaned(search_term) == strip(lower(search_term))

\* The rows of the returned DataFrame; an empty DataFrame is <<>>.
get_search_results(search_term, data, granularity) ==
    LET term == search_term_cleaned(search_term)
    IN  IF term = <<>> THEN <<>>
        ELSE IF granularity = "All Standard Works Combined"
             THEN CombinedRows(term, data)
        ELSE IF granularity = "By Standard Work"
             THEN StandardWorkRows(term, data)
        ELSE IF granularity = "By Book (within each Standard Work)"
             THEN BookRows(term, data)
        ELSE <<>>

\* load_data: the parsed document, or None when the file is absent or no JSON
load_data(file) == IF file.kind = "json" THEN file ELSE None

SearchTerms ==
    { <<" ","F","a","i","t","h"," ">>, <<"f","a","i","t","h">>, <<"W","O","R","K","S","\n">>,
      <<"g","o","d","'","s">>, <<>>, <<" ", "\t">>, <<"\n">> }

\* The app starts after a batch run has ended, in any way it can end.
InitApp ==
    /\ NLTK_AVAILABLE \in BOOLEAN
    /\ idx = 1
    /\ app_pc = "start"
    /\ scripture_data = None
    /\ results = NoResults
    /\ \E prior \in PriorOutputs \cup {MalformedFile} :
          \/ /\ infile \in {MissingFile, MalformedFile}
             /\ pc = "aborted"
             /\ scripture_verses = <<>>
             /\ processed_data = NewProcessedData
             /\ final_data_for_json = NewProcessedData
             /\ outfile = prior
          \/ \E vs \in VerseLists :
                /\ infile = JsonFile(vs)
                /\ scripture_verses = vs
                /\ processed_data = ProcessAll(vs, NLTK_AVAILABLE)
                /\ final_data_for_json = FinalData(processed_data)
                /\ \/ pc = "done" /\ outfile = JsonFile(final_data_for_json)
                   \/ pc = "write_failed" /\ outfile = prior

\* scripture_data = load_data(DATA_FILE), once (st.cache_data)
LoadData ==
    /\ app_pc = "start"
    /\ scripture_data' = load_data(outfile)
    /\ app_pc' = IF scripture_data'.kind = "json" THEN "ready" ELSE "failed"
    /\ UNCHANGED <<outfile, results>>
    /\ UNCHANGED aggVars

\* a call get_search_results(search_term, scripture_data, granularity)
Search ==
    /\ app_pc = "ready"
    /\ \E search_term \in SearchTerms, granularity \in Granularities :
          results' = [called |-> TRUE,
                      search_term |-> search_term,
                      granularity |-> granularity,
                      rows |-> get_search_results(search_term,
                                                  scripture_data.doc,
                                                  granularity)]
    /\ UNCHANGED <<outfile, app_pc, scripture_data>>
    /\ UNCHANGED aggVars

NextApp ==
    \/ LoadData
    \/ Search

SpecApp == InitApp /\ [][NextApp]_vars

-----------------------------------------------------------------------------
(* Vocabulary of the properties *)

RECURSIVE SumOn(_, _)
SumOn(f, S) ==
    IF S = {} THEN 0
    ELSE LET x == CHOOSE y \in S : TRUE IN f[x] + SumOn(f, S \ {x})

\* the sum of the values of a function or sequence
SumOver(f) == SumOn(f, DOMAIN f)

KeySet(d) == {d[i].k : i \in DOMAIN d}

UniqueKeys(d) == \A i, j \in DOMAIN d : d[i].k = d[j].k => i = j

RecognizedNames ==
    {"Old Testament", "New Testament", "Book of Mormon",
     "Doctrine and Covenants", "Pearl of Great Price"}

Present(verse_data, key) ==
    IF key \in DOMAIN verse_data
    THEN verse_data[key] # (IF key = "scripture_text" THEN <<>> ELSE "")
    ELSE FALSE

\* a verse the aggregation has to drop
Rejected(verse_data) ==
    IF /\ Present(verse_data, "volume_title")
       /\ Present(verse_data, "book_title")
       /\ Present(verse_data, "scripture_text")
    THEN verse_data.volume_title \notin RecognizedNames
    ELSE TRUE

\* the tokens of the accepted verses of one book among the first n verses
TokensOfBook(verses, n, sw_name, book_name) ==
    SumOver([i \in 1..n |->
        IF Rejected(verses[i]) THEN 0
        ELSE IF verses[i].volume_title = sw_name
                /\ verses[i].book_title = book_name
             THEN Len(clean_and_tokenize_text(verses[i].scripture_text))
             ELSE 0])

TotalsAddUp(data) ==
    /\ data.total_words_overall =
           SumOver([i \in DOMAIN data.standard_works |->
                       data.standard_works[i].v.total_words_in_standard_work])
    /\ \A i \in DOMAIN data.standard_works :
          LET sw == data.standard_works[i].v
          IN  sw.total_words_in_standard_work =
                  SumOver([j \in DOMAIN sw.books |-> sw.books[j].v.total_words])

BookTotalsMatch(data, verses, n) ==
    \A i \in DOMAIN data.standard_works :
       \A j \in DOMAIN data.standard_works[i].v.books :
          LET book == data.standard_works[i].v.books[j]
          IN  /\ book.v.total_words = SumOver(book.v.word_counts)
              /\ book.v.total_words = SumOver(book.v.lemmatized_word_counts)
              /\ book.v.total_words =
                     TokensOfBook(verses, n, data.standard_works[i].k, book.k)

\* equal as mappings: the same keys, counts and totals, in whatever key order
SameSnapshot(a, b) ==
    /\ a.total_words_overall = b.total_words_overall
    /\ UniqueKeys(a.standard_works) /\ UniqueKeys(b.standard_works)
    /\ KeySet(a.standard_works) = KeySet(b.standard_works)
    /\ \A sw_name \in KeySet(a.standard_works) :
          LET x == DictGet(a.standard_works, sw_name)
              y == DictGet(b.standard_works, sw_name)
          IN  /\ x.total_words_in_standard_work = y.total_words_in_standard_work
              /\ UniqueKeys(x.books) /\ UniqueKeys(y.books)
              /\ KeySet(x.books) = KeySet(y.books)
              /\ \A book_name \in KeySet(x.books) :
                    LET bx == DictGet(x.books, book_name)
                        by == DictGet(y.books, book_name)
                    IN  /\ bx.word_counts = by.word_counts
                        /\ bx.total_words = by.total_words

Orderings(n) ==
    {p \in [1..n -> 1..n] : \A i, j \in 1..n : p[i] = p[j] => i = j}

Permuted(verses, p) == [i \in DOMAIN verses |-> verses[p[i]]]

LoopOver == pc \in {"write", "done", "write_failed"}

-----------------------------------------------------------------------------
(* Properties of the aggregation, under Spec *)

\* C1: after every prefix of the verse list, and in the copy that is dumped
\* and the file that is written, total_words_overall is the sum of the
\* standard works' totals and each standard work's total is the sum of its
\* books' totals.
C1_TotalsAddUp ==
    /\ TotalsAddUp(processed_data)
    /\ LoopOver => TotalsAddUp(final_data_for_json)
    /\ pc = "done" => TotalsAddUp(outfile.doc)

C1_Witness ==
    /\ pc = "done"
    /\ \E i \in DOMAIN outfile.doc.standard_works :
          /\ Len(outfile.doc.standard_works[i].v.books) = 2
          /\ outfile.doc.standard_works[i].v.total_words_in_standard_work = 5

\* C2: every book's total_words is the sum of its word_counts, the sum of
\* its lemmatized_word_counts, and the number of tokens the tokenizer gives
\* for the accepted verses of that book, whether or not the lemmatizer is
\* available or fails on a batch.
C2_BookTotals ==
    /\ BookTotalsMatch(processed_data, scripture_verses, idx - 1)
    /\ LoopOver => BookTotalsMatch(final_data_for_json, scripture_verses,
                                   Len(scripture_verses))
    /\ pc = "done" => BookTotalsMatch(outfile.doc, scripture_verses,
                                      Len(scripture_verses))

C2_Witness ==
    /\ pc = "done"
    /\ NLTK_AVAILABLE
    /\ \E i \in DOMAIN outfile.doc.standard_works :
          \E j \in DOMAIN outfile.doc.standard_works[i].v.books :
             LET book == outfile.doc.standard_works[i].v.books[j].v
             IN  /\ book.total_words = 4
                 /\ book.lemmatized_word_counts # book.word_counts
                 /\ <<"w","o","r","k">> \in DOMAIN book.lemmatized_word_counts
                 /\ book.lemmatized_word_counts[<<"w","o","r","k">>] = 3

\* C3: whatever the order of the input verses, the snapshot holds the same
\* standard works and books, the same word_counts per book and the same
\* totals at the three levels.
C3_OrderIndependent ==
    LoopOver =>
        \A p \in Orderings(Len(scripture_verses)) :
           LET other == FinalData(ProcessAll(Permuted(scripture_verses, p),
                                             NLTK_AVAILABLE))
           IN  /\ SameSnapshot(final_data_for_json, other)
               /\ pc = "done" => SameSnapshot(outfile.doc, other)

\* two accepted verses of different standard works: the other order gives
\* the same counts under another key order
C3_Witness ==
    /\ pc = "done"
    /\ Len(scripture_verses) = 2
    /\ Len(outfile.doc.standard_works) = 2
    /\ outfile.doc.total_words_overall = 5
    /\ FinalData(ProcessAll(<<scripture_verses[2], scripture_verses[1]>>,
                            NLTK_AVAILABLE)).standard_works[1].k
         = outfile.doc.standard_works[2].k

\* C4: an iteration over a verse with an unrecognized volume_title, or with
\* a missing or empty volume_title, book_title or scripture_text, changes
\* nothing of the aggregation state; every standard-work key of the
\* aggregation state, of the dumped copy and of the written file is one of
\* the five recognized names.
C4_RejectedVerseChangesNothing ==
    /\ [](/\ KeySet(processed_data.standard_works) \subseteq RecognizedNames
          /\ KeySet(final_data_for_json.standard_works)
                \subseteq RecognizedNames
          /\ pc = "done" =>
                KeySet(outfile.doc.standard_works) \subseteq RecognizedNames)
    /\ [][(/\ pc = "loop"
           /\ idx <= Len(scripture_verses)
           /\ idx' = idx + 1
           /\ Rejected(scripture_verses[idx]))
          => /\ processed_data' = processed_data
             /\ outfile' = outfile]_vars

\* an unrecognized volume_title was passed over with counts already there
C4_Witness ==
    /\ pc = "loop"
    /\ idx = 3
    /\ Present(scripture_verses[2], "volume_title")
    /\ scripture_verses[2].volume_title = "Apocrypha"
    /\ processed_data.total_words_overall = 3

\* C10: with the input file missing or unparsable the run never enters the
\* loop nor the write step, processes no verse and leaves the output file
\* as it was.
C10_BadInputWritesNothing ==
    [][infile.kind \in {"missing", "malformed"}
       => /\ outfile' = outfile
          /\ processed_data' = processed_data
          /\ idx' = idx
          /\ pc' = "aborted"]_vars

C10_Witness ==
    /\ pc = "aborted"
    /\ infile.kind = "malformed"
    /\ outfile = JsonFile(ExampleSnapshot)

-----------------------------------------------------------------------------
(* Vocabulary of the query properties *)

Combined == "All Standard Works Combined"

PerStandardWork == "By Standard Work"

PerBook == "By Book (within each Standard Work)"

DigitValue(c) == (CHOOSE i \in DOMAIN Digits : Digits[i] = c) - 1

RECURSIVE ParseDigits(_)
ParseDigits(str) ==
    IF str = <<>> THEN 0
    ELSE 10 * ParseDigits(SubSeq(str, 1, Len(str) - 1))
           + DigitValue(str[Len(str)])

\* a decimal with exactly two digits after the point
IsFixed2(str) ==
    /\ Len(str) >= 4
    /\ str[Len(str) - 2] = "."
    /\ \A i \in DOMAIN str : i # Len(str) - 2 => str[i] \in Range(Digits)
    /\ Len(str) > 4 => str[1] # "0"

\* its value in hundredths
Hundredths(str) ==
    ParseDigits(SubSeq(str, 1, Len(str) - 3)
                  \o SubSeq(str, Len(str) - 1, Len(str)))

Abs(n) == IF n < 0 THEN -n ELSE n

\* str is raw / total * 10000 rounded to two decimals, and 0.00 for total 0
IsRate(str, raw, total) ==
    /\ IsFixed2(str)
    /\ IF total = 0 THEN Hundredths(str) = 0
       ELSE 2 * Abs(Hundredths(str) * total - raw * 1000000) <= total

\* the (standard work, book) index pairs before standard work i
BooksBefore(data, i) ==
    SumOver([h \in 1..(i - 1) |-> Len(data.standard_works[h].v.books)])

TermCount(book_data, term) ==
    IF term \in DOMAIN book_data.word_counts
    THEN book_data.word_counts[term] ELSE 0

AllWhitespace(str) == \A i \in DOMAIN str : str[i] \in Whitespace

\* the last call was a query of this granularity with a non-empty term
Queried(granularity) ==
    /\ results.called
    /\ results.granularity = granularity
    /\ ~AllWhitespace(results.search_term)

\* the volume titles of the accepted verses, each at its first occurrence
RECURSIVE FirstSeen(_, _)
FirstSeen(verses, seen) ==
    IF verses = <<>> THEN seen
    ELSE IF Rejected(Head(verses)) THEN FirstSeen(Tail(verses), seen)
    ELSE IF Head(verses).volume_title \in Range(seen)
         THEN FirstSeen(Tail(verses), seen)
    ELSE FirstSeen(Tail(verses), Append(seen, Head(verses).volume_title))

-----------------------------------------------------------------------------
(* Properties of the queries, under SpecApp *)

\* C5: a Combined query with a non-empty term returns one row; its raw
\* count is the sum of the raw counts of the PerBook query for the same
\* term, and its rate is rawCount / total_words_overall * 10000 rounded to
\* two decimals, 0.00 when total_words_overall is 0.
C5_CombinedRow ==
    Queried(Combined) =>
        LET data == scripture_data.doc
            perBook == get_search_results(results.search_term, data, PerBook)
        IN  /\ Len(results.rows) = 1
            /\ results.rows[1]["Raw Count"] =
                   SumOver([n \in DOMAIN perBook |-> perBook[n]["Raw Count"]])
            /\ IsRate(results.rows[1]["Per 10,000 Words"],
                      results.rows[1]["Raw Count"], data.total_words_overall)

\* "faith" twice in Alma and once in John: 3 of 5 words
C5_Witness ==
    /\ Queried(Combined)
    /\ Len(scripture_data.doc.standard_works) = 2
    /\ results.rows[1]["Raw Count"] = 3
    /\ results.rows[1]["Per 10,000 Words"] = <<"6","0","0","0",".","0","0">>

\* C6: a PerBook query with a non-empty term returns one row per (standard
\* work, book) pair, the books of a standard work together and in order;
\* the row's raw count is the term's entry in the book's word_counts, 0
\* when there is none, and its rate is rawCount / total_words * 10000
\* rounded to two decimals, 0.00 when total_words is 0; 50 of 5000 words
\* give 100.00.
C6_PerBookRows ==
    Queried(PerBook) =>
        LET data == scripture_data.doc
            term == strip(lower(results.search_term))
        IN  /\ Len(results.rows) =
                   BooksBefore(data, Len(data.standard_works) + 1)
            /\ \A i \in DOMAIN data.standard_works :
                  \A j \in DOMAIN data.standard_works[i].v.books :
                     LET book == data.standard_works[i].v.books[j]
                         row == results.rows[BooksBefore(data, i) + j]
                     IN  /\ row["Standard Work"] = data.standard_works[i].k
                         /\ row["Book"] = book.k
                         /\ row["Raw Count"] = TermCount(book.v, term)
                         /\ IsRate(row["Per 10,000 Words"],
                                   row["Raw Count"], book.v.total_words)
                         /\ (row["Raw Count"] = 50
                               /\ book.v.total_words = 5000)
                            => row["Per 10,000 Words"] = <<"1","0","0",".","0","0">>

\* the snapshot with faith 50 times among the 5000 words of Alma
C6_Witness ==
    /\ Queried(PerBook)
    /\ Len(results.rows) = 2
    /\ results.rows[1]["Book"] = "Alma"
    /\ results.rows[1]["Raw Count"] = 50
    /\ results.rows[1]["Per 10,000 Words"] = <<"1","0","0",".","0","0">>
    /\ results.rows[1]["Total Words in Book"] = <<"5",",","0","0","0">>
    /\ results.rows[2]["Raw Count"] = 0
    /\ results.rows[2]["Per 10,000 Words"] = <<"0",".","0","0">>

\* C7: a PerStandardWork query with a non-empty term returns one row per
\* standard work of the snapshot, in the snapshot's order, which for a
\* snapshot the batch run wrote is the order in which the standard works
\* first occur among the accepted verses; the row's raw count is the sum of
\* the term's counts over the standard work's books and its rate is taken
\* against total_words_in_standard_work, 0.00 when that is 0.
C7_PerStandardWorkRows ==
    Queried(PerStandardWork) =>
        LET data == scripture_data.doc
            term == strip(lower(results.search_term))
        IN  /\ Len(results.rows) = Len(data.standard_works)
            /\ \A i \in DOMAIN data.standard_works :
                  LET sw == data.standard_works[i]
                      row == results.rows[i]
                  IN  /\ row["Standard Work"] = sw.k
                      /\ row["Raw Count"] =
                             SumOver([j \in DOMAIN sw.v.books |->
                                         TermCount(sw.v.books[j].v, term)])
                      /\ IsRate(row["Per 10,000 Words"], row["Raw Count"],
                                sw.v.total_words_in_standard_work)
            /\ pc = "done" =>
                  [i \in DOMAIN results.rows |->
                      results.rows[i]["Standard Work"]]
                    = FirstSeen(scripture_verses, <<>>)

\* Book of Mormon inserted before Old Testament, whose only verse has no word
C7_Witness ==
    /\ Queried(PerStandardWork)
    /\ pc = "done"
    /\ Len(results.rows) = 2
    /\ results.rows[1]["Standard Work"] = "Book of Mormon"
    /\ results.rows[1]["Raw Count"] = 2
    /\ results.rows[2]["Standard Work"] = "Old Testament"
    /\ results.rows[2]["Per 10,000 Words"] = <<"0",".","0","0">>

\* C8: a query with an empty or whitespace-only term returns no row, at
\* each of the three granularities.
C8_EmptyTermNoRows ==
    (results.called /\ AllWhitespace(results.search_term))
        => results.rows = <<>>

C8_Witness ==
    /\ results.called
    /\ results.search_term = <<" ", "\t">>
    /\ results.granularity = PerBook
    /\ scripture_data.doc.total_words_overall > 0
    /\ results.rows = <<>>

\* C9: two queries of the same granularity on the same snapshot whose terms
\* are equal after lowercasing and trimming return the same rows.
C9_CaseAndSpaceInsensitive ==
    [][(/\ results.called
        /\ results'.called
        /\ results'.granularity = results.granularity
        /\ scripture_data' = scripture_data
        /\ strip(lower(results'.search_term))
             = strip(lower(results.search_term)))
       => results'.rows = results.rows]_vars

C9_Witness ==
    /\ results.called
    /\ results.search_term = <<" ","F","a","i","t","h"," ">>
    /\ results.granularity = PerStandardWork
    /\ Len(results.rows) = 2
    /\ results.rows[1]["Search Term"] = <<"f","a","i","t","h">>
    /\ results.rows[1]["Raw Count"] = 2

====
